---- MODULE Spec2Model ----
(***************************************************************************)
(* Model of cool_seq_tool.data_sources.feature_overlap.FeatureOverlap:     *)
(* the CDS table held by the resolver and get_grch38_cds_overlap.          *)
(*                                                                         *)
(* Strings the code inspects character by character (chromosome names and *)
(* aliases, both matched against regular expressions) are sequences of     *)
(* one-character strings.  Strings the code only compares or embeds        *)
(* (identifiers, gene names, record names, message texts) are TLA+ strings.*)
(* An Optional[T] value is a sequence of length 0 (None) or 1.             *)
(***************************************************************************)
EXTENDS Integers, Sequences, FiniteSets, TLC

VARIABLES
    df,        \* self.df, the table of CDS rows the resolver holds
    built,     \* the table as _load_mane_refseq_gff_data returned it
    request,   \* the arguments of the call being served
    response,  \* how that call ended
    calls      \* the number of calls made

vars == <<df, built, request, response, calls>>

-----------------------------------------------------------------------------
(* Bounds of the model *)

\* query positions range over 0..MaxPos
MaxPos == 4
\* the annotation table is drawn from the first MaxRows rows of the source
MaxRows == 5
\* the same, for the specification of call sequences
SeqMaxPos == 2
SeqMaxRows == 2
\* calls in a sequence of calls
MaxCalls == 3
\* positions given to get_reference_sequence range over 0..MaxRefPos
MaxRefPos == 6
\* length of a chromosome name of the annotation source
MaxNameLen == 4

-----------------------------------------------------------------------------
(* Optional values and Python truthiness *)

None == <<>>

Some(v) == <<v>>

\* `if chromosome:` -- None and the empty string are both falsy
\* (a chromosome is a sequence of characters)
TruthyChars(o) == o # None /\ o[1] # <<>>

\* `if identifier:` -- None and the empty string are both falsy
TruthyStr(o) == o # None /\ o[1] # ""

-----------------------------------------------------------------------------
(* Regular expressions of the module, matched the way re.match does *)

Digits19 == {"1", "2", "3", "4", "5", "6", "7", "8", "9"}

Digits09 == Digits19 \cup {"0"}

Digits02 == {"0", "1", "2"}

\* `$`: the end of the string, or the position of a final newline
AtEnd(s, i) == i = Len(s) + 1 \/ (i = Len(s) /\ s[i] = "\n")

\* ([1-9]|1[0-9]|2[0-2]) tried at position i: the positions right after a match
NumberEnds(s, i) ==
    {j \in {i + 1, i + 2} :
        /\ j <= Len(s) + 1
        /\ \/ j = i + 1 /\ s[i] \in Digits19
           \/ j = i + 2 /\ s[i] = "1" /\ s[i + 1] \in Digits09
           \/ j = i + 2 /\ s[i] = "2" /\ s[i + 1] \in Digits02}

\* X|Y|([1-9]|1[0-9]|2[0-2]) tried at position i
ChromosomeEnds(s, i) ==
    {j \in {i + 1} : j <= Len(s) + 1 /\ s[i] \in {"X", "Y"}} \cup NumberEnds(s, i)

\* re.match(r"^X|Y|([1-9]|1[0-9]|2[0-2])$", chromosome): the alternation binds
\* weaker than the anchors, so the three branches are ^X, Y and (...)$,
\* each tried at the start of the string
ChromosomeArgMatches(s) ==
    \/ Len(s) >= 1 /\ s[1] = "X"
    \/ Len(s) >= 1 /\ s[1] = "Y"
    \/ \E j \in NumberEnds(s, 1) : AtEnd(s, j)

AliasPrefix == <<"G", "R", "C", "h", "3", "8", ":">>

\* re.match(r"^GRCh38:(?P<chromosome>X|Y|([1-9]|1[0-9]|2[0-2]))$", a):
\* the positions at which the named group can end in a match of the whole
AliasGroupEnds(a) ==
    IF Len(a) > Len(AliasPrefix) /\ SubSeq(a, 1, Len(AliasPrefix)) = AliasPrefix
    THEN {j \in ChromosomeEnds(a, Len(AliasPrefix) + 1) : AtEnd(a, j)}
    ELSE {}

AliasMatches(a) == AliasGroupEnds(a) # {}

\* chr_match.groupdict()["chromosome"]
AliasGroup(a) ==
    SubSeq(a, Len(AliasPrefix) + 1, (CHOOSE j \in AliasGroupEnds(a) : TRUE) - 1)

-----------------------------------------------------------------------------
(* Results of a call: a returned value or a raised FeatureOverlapError *)

Return(v) == [kind |-> "return", value |-> v, msg |-> None]

\* Raise with the error handed back as a value
ReturnError(text, arg) ==
    [kind |-> "return", value |-> None, msg |-> Some(<<text, arg>>)]

\* raise FeatureOverlapError(...):
\* a message is its text (written without the backquotes of the source) and
\* the identifier embedded in it
Raise(text, arg) == [kind |-> "raise", value |-> None, msg |-> Some(<<text, arg>>)]

-----------------------------------------------------------------------------
(* SeqRepoAccess.translate_identifier over a fixed repository *)

G38(c) == AliasPrefix \o c

\* the GRCh38 aliases the repository holds for the identifiers it knows
SeqRepoAliases ==
    [ac \in {"NC_000007.14", "NC_000023.11", "NC_000024.10", "NW_003315950.2",
             "NM_152263.3"} |->
        CASE ac = "NC_000007.14" -> <<G38(<<"c", "h", "r", "7">>), G38(<<"7">>)>>
          [] ac = "NC_000023.11" -> <<G38(<<"X">>), G38(<<"c", "h", "r", "X">>)>>
          [] ac = "NC_000024.10" -> <<G38(<<"Y">>), G38(<<"X">>)>>
          [] ac = "NW_003315950.2" -> <<G38(<<"2", "3">>), G38(<<"X", "a">>)>>
          [] ac = "NM_152263.3" -> <<>>]

\* (aliases, error): the aliases in the target namespace and no error, or no
\* alias and a message when the repository does not know the identifier
translate_identifier(ac, target_namespaces) ==
    IF ac \in DOMAIN SeqRepoAliases /\ target_namespaces = "GRCh38"
    THEN <<SeqRepoAliases[ac], None>>
    ELSE <<<<>>, Some(<<"SeqRepo unable to get translated identifiers for ", ac>>)>>

-----------------------------------------------------------------------------
(* FeatureOverlap._get_chr_from_alt_ac *)

RECURSIVE LastMatch(_)
\* FirstMatch without the break
LastMatch(aliases) ==
    IF aliases = <<>> THEN None
    ELSE IF LastMatch(Tail(aliases)) # None THEN LastMatch(Tail(aliases))
    ELSE IF AliasMatches(Head(aliases)) THEN Some(Head(aliases))
    ELSE None

RECURSIVE FirstMatch(_)
\* for a in aliases: chr_match = re.match(chr_pattern, a); if chr_match: break
\* the alias chr_match was made from, None when the last re.match failed too
FirstMatch(aliases) ==
    IF aliases = <<>> THEN None
    ELSE IF AliasMatches(Head(aliases)) THEN Some(Head(aliases))
    ELSE FirstMatch(Tail(aliases))

_get_chr_from_alt_ac(identifier) ==
    LET resp == translate_identifier(identifier, "GRCh38")
        aliases == resp[1]
        error_msg == resp[2]
        chr_match == FirstMatch(aliases)
    IN  IF error_msg # None THEN [kind |-> "raise", value |-> None, msg |-> error_msg]
        ELSE IF aliases = <<>>
        THEN Raise("Unable to find GRCh38 aliases for: ", identifier)
        ELSE IF chr_match = None
        THEN Raise("Unable to find GRCh38 chromosome for: ", identifier)
        ELSE Return(AliasGroup(chr_match[1]))

-----------------------------------------------------------------------------
(* FeatureOverlap.get_grch38_cds_overlap *)

\* RowSelected with a row that only touches the end of the interval left out
RowSelectedStrict(r, chromosome, start, end) ==
    r.chromosome = chromosome /\ r.cds_start < end /\ r.cds_stop >= start

\* self.df[(chromosome == ...) & (cds_start <= end) & (cds_stop >= start)]
RowSelected(r, chromosome, start, end) ==
    r.chromosome = chromosome /\ r.cds_start <= end /\ r.cds_stop >= start

\* overlap_start with the comparison turned round
overlap_start_min(x, start) == IF start >= x THEN x ELSE start

\* lambda x: x if start <= x else start
overlap_start(x, start) == IF start <= x THEN x ELSE start

\* lambda x: end if end <= x else x
overlap_stop(x, end) == IF end <= x THEN end ELSE x

\* the selected rows, in table order, with the two overlap columns added
feature_df(table, chromosome, start, end) ==
    LET Test(r) == RowSelected(r, chromosome, start, end)
        rows == SelectSeq(table, Test)
    IN  [i \in 1..Len(rows) |->
            [type |-> rows[i].type, chromosome |-> rows[i].chromosome,
             cds_start |-> rows[i].cds_start, cds_stop |-> rows[i].cds_stop,
             info_name |-> rows[i].info_name, gene |-> rows[i].gene,
             overlap_start |-> overlap_start(rows[i].cds_start, start),
             overlap_stop |-> overlap_stop(rows[i].cds_stop, end)]]

\* ToRecord with info_name kept as a column
ToRecordWithName(r) ==
    [info_name |-> r.info_name, cds_start |-> r.cds_start, cds_stop |-> r.cds_stop,
     overlap_start |-> r.overlap_start, overlap_stop |-> r.overlap_stop]

\* x[[info_name, cds_start, cds_stop, overlap_start, overlap_stop]]
\*   .set_index("info_name").to_dict(orient="records"), for one row:
\* info_name becomes the index, which the records leave out
ToRecord(r) ==
    [cds_start |-> r.cds_start, cds_stop |-> r.cds_stop,
     overlap_start |-> r.overlap_start, overlap_stop |-> r.overlap_stop]

\* feature_df.groupby(["gene"])[...].apply(...).to_dict()
GroupByGene(fdf) ==
    [g \in {fdf[i].gene : i \in 1..Len(fdf)} |->
        LET InGroup(r) == r.gene = g
            group == SelectSeq(fdf, InGroup)
        IN  [k \in 1..Len(group) |-> ToRecord(group[k])]]

\* if residue_mode == ResidueMode.INTER_RESIDUE: start += 1 unless start == end
NormStart(start, end, residue_mode) ==
    IF residue_mode = "INTER_RESIDUE" /\ start # end THEN start + 1 ELSE start

\* NormEnd without the zero-width case
NormEndUnchanged(start, end, residue_mode) == end

\* if residue_mode == ResidueMode.INTER_RESIDUE: end += 1 when start == end
NormEnd(start, end, residue_mode) ==
    IF residue_mode = "INTER_RESIDUE" /\ start = end THEN end + 1 ELSE end

\* DfAfterQuery with the selection assigned to self.df
DfAfterQueryKeepsSelection(table, fdf) ==
    [i \in 1..Len(fdf) |->
        [type |-> fdf[i].type, chromosome |-> fdf[i].chromosome,
         cds_start |-> fdf[i].cds_start, cds_stop |-> fdf[i].cds_stop,
         info_name |-> fdf[i].info_name, gene |-> fdf[i].gene]]

\* self.df after the query: the filter result is a copy, and the overlap
\* columns are added to the copy
DfAfterQuery(table, fdf) == table

\* What one call does.  kind, value, msg: how the call ended.  chromosome,
\* start, end: the local variables when it ended.  translate_calls: the
\* number of calls of translate_identifier.  filtered: whether self.df was
\* filtered.
Ended(result, chromosome, start, end, translate_calls, filtered) ==
    [kind |-> result.kind, value |-> result.value, msg |-> result.msg,
     chromosome |-> chromosome, start |-> start, end |-> end,
     translate_calls |-> translate_calls, filtered |-> filtered]

\* Result without the test for an empty selection
ResultNoSentinel(fdf) == Return(Some(GroupByGene(fdf)))

\* if feature_df.empty: return None, else the records grouped by gene
Result(fdf) == IF fdf = <<>> THEN Return(None) ELSE Return(Some(GroupByGene(fdf)))

\* the part of the call after the chromosome is settled
Query(table, start, end, chromosome, residue_mode, translate_calls) ==
    LET s == NormStart(start, end, residue_mode)
        e == NormEnd(start, end, residue_mode)
        fdf == feature_df(table, chromosome, s, e)
    IN  Ended(Result(fdf), Some(chromosome), s, e, translate_calls, TRUE)

\* ChromosomeGiven with the identifier tested first
ChromosomeGivenUnlessIdentifier(chromosome, identifier) ==
    TruthyChars(chromosome) /\ ~TruthyStr(identifier)

\* `if chromosome:` is tested first, whatever identifier is
ChromosomeGiven(chromosome, identifier) == TruthyChars(chromosome)

get_grch38_cds_overlap(table, start, end, chromosome, identifier, residue_mode) ==
    IF ChromosomeGiven(chromosome, identifier)
    THEN IF ~ChromosomeArgMatches(chromosome[1])
         THEN Ended(Raise("chromosome must be 1, ..., 22, X, or Y", ""),
                    chromosome, start, end, 0, FALSE)
         ELSE Query(table, start, end, chromosome[1], residue_mode, 0)
    ELSE IF TruthyStr(identifier)
         THEN LET c == _get_chr_from_alt_ac(identifier[1])
              IN  IF c.kind = "raise"
                  THEN Ended(c, chromosome, start, end, 1, FALSE)
                  ELSE Query(table, start, end, c.value, residue_mode, 1)
         ELSE Ended(Raise("Must provide either chromosome or identifier", ""),
                    chromosome, start, end, 0, FALSE)

-----------------------------------------------------------------------------
(* The annotation table and the requests *)

Row(gene, chromosome, info_name, cds_start, cds_stop) ==
    [type |-> "CDS", chromosome |-> chromosome, cds_start |-> cds_start,
     cds_stop |-> cds_stop, info_name |-> info_name, gene |-> gene]

\* CDS rows of an annotation source, as _load_mane_refseq_gff_data keeps them
SourceRows ==
    << Row("EGFR", <<"7">>, "cds-NP_005219.2", 2, 3),
       Row("BRAF", <<"7">>, "cds-NP_004324.2", 1, 2),
       Row("MECP2", <<"X">>, "cds-NP_001104262.1", 2, 2),
       Row("EGFR", <<"7">>, "cds-NP_005219.2", 3, 3),
       Row("EGFR", <<"7">>, "cds-NP_005219.2", 2, 3),
       Row("BRAF", <<"7">>, "cds-NP_004324.2", 3, 3) >>

Min(a, b) == IF a <= b THEN a ELSE b

RECURSIVE SubSequences(_)
\* the sequences made of some of the rows of s, in the order of s
SubSequences(s) ==
    IF s = <<>> THEN {<<>>}
    ELSE LET rest == SubSequences(Tail(s))
         IN  rest \cup {<<Head(s)>> \o t : t \in rest}

Tables(maxRows) == SubSequences(SubSeq(SourceRows, 1, Min(maxRows, Len(SourceRows))))

ChromosomeArgs ==
    {None, Some(<<>>), Some(<<"7">>), Some(<<"X">>), Some(<<"2", "3">>),
     Some(<<"c", "h", "r", "7">>), Some(<<"X", "7">>), Some(<<"Y", "a">>)}

IdentifierArgs ==
    {None, Some(""), Some("NC_000007.14"), Some("NC_000023.11"), Some("NC_000024.10"),
     Some("NW_003315950.2"), Some("NM_152263.3"), Some("refseq_152263.3")}

ResidueModes == {"RESIDUE", "INTER_RESIDUE"}

Requests(maxPos, chromosomes, identifiers) ==
    [start : 0..maxPos, end : 0..maxPos, chromosome : chromosomes,
     identifier : identifiers, residue_mode : ResidueModes]

Pending == Ended([kind |-> "pending", value |-> None, msg |-> None], None, 0, 0, 0, FALSE)

Respond(r) ==
    LET run == get_grch38_cds_overlap(df, r.start, r.end, r.chromosome,
                                      r.identifier, r.residue_mode)
    IN  /\ response' = run
        /\ df' = DfAfterQuery(df, IF run.filtered
                                  THEN feature_df(df, run.chromosome[1], run.start, run.end)
                                  ELSE <<>>)
        /\ calls' = calls + 1
        /\ UNCHANGED built

-----------------------------------------------------------------------------
(* Specification of one call: a resolver is constructed over a table, and  *)
(* one request, drawn with the table, is served.                           *)

Init ==
    /\ df \in Tables(MaxRows)
    /\ built = df
    /\ request \in Requests(MaxPos, ChromosomeArgs, IdentifierArgs)
    /\ response = Pending
    /\ calls = 0

Call ==
    /\ response.kind = "pending"
    /\ Respond(request)
    /\ UNCHANGED request

Next == Call

Spec == Init /\ [][Next]_vars

-----------------------------------------------------------------------------
(* Specification of call sequences: any request may follow any other.      *)

SeqChromosomeArgs == {None, Some(<<"7">>), Some(<<"X", "7">>)}

SeqIdentifierArgs == {None, Some("NC_000007.14"), Some("refseq_152263.3")}

\* no call was made yet: request holds the defaults of the optional arguments
NoRequest ==
    [start |-> 0, end |-> 0, chromosome |-> None, identifier |-> None,
     residue_mode |-> "RESIDUE"]

SeqInit ==
    /\ df \in Tables(SeqMaxRows)
    /\ built = df
    /\ request = NoRequest
    /\ response = Pending
    /\ calls = 0

CallNext ==
    \E r \in Requests(SeqMaxPos, SeqChromosomeArgs, SeqIdentifierArgs) :
        /\ calls < MaxCalls
        /\ request' = r
        /\ Respond(r)

SeqNext == CallNext

SpecCalls == SeqInit /\ [][SeqNext]_vars

-----------------------------------------------------------------------------
(* SeqRepoAccess.get_reference_sequence over a fixed repository            *)
(* A sequence is a sequence of one-letter residues; a position argument is *)
(* None or Some(n).                                                        *)

\* the sequences the repository holds
SeqRepoSequences ==
    [ac \in {"NP_004324.2", "NP_001341538.1"} |->
        IF ac = "NP_004324.2" THEN <<"M", "A", "A", "L">> ELSE <<"V", "K">>]

AccessionArgs == {"NP_004324.2", "NP_001341538.1", "NP_0043241311412"}

\* Reversed, checked one position late
ReversedOffByOne(start, end) ==
    start # None /\ end # None /\ start[1] > end[1] + 1

\* start and end are both given and start is greater than end, as given
\* (get_reference_sequence(ac, 601, 600) fails in RESIDUE mode)
Reversed(start, end) == start # None /\ end # None /\ start[1] > end[1]

\* InterResidueStart without the conversion
InterResidueStartAsGiven(start, residue_mode) ==
    IF start = None THEN 0 ELSE start[1]

\* the inter-residue start of the slice: residue n becomes n - 1; the origin
\* when start is omitted
InterResidueStart(start, residue_mode) ==
    IF start = None THEN 0
    ELSE IF residue_mode = "RESIDUE" THEN start[1] - 1 ELSE start[1]

\* the inter-residue end of the slice: the end of the sequence when omitted
InterResidueEnd(end, sequence) == IF end = None THEN Len(sequence) ELSE end[1]

RefResult(sequence, error) == [kind |-> "return", value |-> sequence, msg |-> error]

\* (sequence, error) of get_reference_sequence, which returns and does not
\* raise.  The spec names the message for an end out of index; a start out
\* of index is taken to fail alike.
get_reference_sequence(ac, start, end, residue_mode) ==
    IF Reversed(start, end)
    THEN RefResult(<<>>, Some(<<"start (", start[1], ") cannot be greater than end (",
                               end[1], ")">>))
    ELSE IF ac \notin DOMAIN SeqRepoSequences
    THEN RefResult(<<>>, Some(<<"Accession, ", ac, ", not found in SeqRepo">>))
    ELSE LET sequence == SeqRepoSequences[ac]
             s == InterResidueStart(start, residue_mode)
             e == InterResidueEnd(end, sequence)
         IN  IF e > Len(sequence)
             THEN RefResult(<<>>, Some(<<"End inter-residue coordinate (", e,
                                        ") is out of index on ", ac>>))
             ELSE IF s < 0 \/ s > Len(sequence)
             THEN RefResult(<<>>, Some(<<"Start inter-residue coordinate (", s,
                                        ") is out of index on ", ac>>))
             ELSE RefResult(SubSeq(sequence, s + 1, e), None)

PositionArgs == {None} \cup {Some(n) : n \in 0..MaxRefPos}

RefRequests ==
    [ac : AccessionArgs, start : PositionArgs, end : PositionArgs,
     residue_mode : ResidueModes]

RefPending == [kind |-> "pending", value |-> <<>>, msg |-> None]

\* a SeqRepoAccess holds no annotation table
RefInit ==
    /\ df = <<>>
    /\ built = <<>>
    /\ request \in RefRequests
    /\ response = RefPending
    /\ calls = 0

GetReferenceSequence ==
    /\ response.kind = "pending"
    /\ response' = get_reference_sequence(request.ac, request.start, request.end,
                                          request.residue_mode)
    /\ calls' = calls + 1
    /\ UNCHANGED <<df, built, request>>

RefNext == GetReferenceSequence

SpecRef == RefInit /\ [][RefNext]_vars

-----------------------------------------------------------------------------
(* FeatureOverlap._load_mane_refseq_gff_data                               *)
(* A source row has the five columns read: chromosome (a sequence of       *)
(* characters), type, cds_start, cds_stop and info, the attributes, a      *)
(* sequence of <<key, value>> tokens.  No key of the sources drawn here    *)
(* contains another key.                                                  *)

StripChars == {"c", "h", "r"}

RECURSIVE LStrip(_)
\* the leading characters of the set removed
LStrip(s) ==
    IF s # <<>> /\ Head(s) \in StripChars THEN LStrip(Tail(s)) ELSE s

RECURSIVE RStrip(_)
\* the trailing characters of the set removed
RStrip(s) ==
    IF s # <<>> /\ s[Len(s)] \in StripChars
    THEN RStrip(SubSeq(s, 1, Len(s) - 1)) ELSE s

\* chromosome.strip("chr"): every leading and every trailing c, h or r goes
Strip(s) == RStrip(LStrip(s))

RECURSIVE FirstField(_)
\* s.split("_")[0]
FirstField(s) ==
    IF s = <<>> \/ Head(s) = "_" THEN <<>> ELSE <<Head(s)>> \o FirstField(Tail(s))

\* lambda chromosome: chromosome.strip("chr").split("_")[0]
NormalizeChromosome(c) == FirstField(Strip(c))

RECURSIVE FindAll(_, _)
\* re.findall(key + "=([^;]+)", info): the values of the tokens of that key
FindAll(info, key) ==
    IF info = <<>> THEN <<>>
    ELSE (IF Head(info)[1] = key THEN <<Head(info)[2]>> ELSE <<>>)
            \o FindAll(Tail(info), key)

\* df[df["type"] == "CDS"]
IsCds(type) == type = "CDS"

\* the table loaded from the rows of a source, or the IndexError of
\* re.findall(...)[0] for a CDS row without a Name or a gene
_load_mane_refseq_gff_data(source) ==
    LET Kept(r) == IsCds(r.type)
        rows == SelectSeq(source, Kept)
    IN  IF \E i \in 1..Len(rows) :
              FindAll(rows[i].info, "Name") = <<>> \/ FindAll(rows[i].info, "gene") = <<>>
        THEN [kind |-> "raise", value |-> None,
              msg |-> Some(<<"list index out of range", "">>)]
        ELSE Return([i \in 1..Len(rows) |->
                [type |-> rows[i].type,
                 chromosome |-> NormalizeChromosome(rows[i].chromosome),
                 cds_start |-> rows[i].cds_start, cds_stop |-> rows[i].cds_stop,
                 info_name |-> FindAll(rows[i].info, "Name")[1],
                 gene |-> FindAll(rows[i].info, "gene")[1]]])

NameChars == {"c", "h", "r", "7", "_"}

\* the chromosome names of at most MaxNameLen characters
ChromosomeNames == UNION {[1..n -> NameChars] : n \in 1..MaxNameLen}

InfoArgs ==
    { << <<"ID", "cds-NP_004324.2">>, <<"Name", "NP_004324.2">>, <<"gene", "BRAF">> >>,
      << <<"ID", "exon-1">>, <<"gene", "BRAF">> >> }

SourceRow(chromosome, type, cds_start, cds_stop, info) ==
    [chromosome |-> chromosome, type |-> type, cds_start |-> cds_start,
     cds_stop |-> cds_stop, info |-> info]

\* an exon row, a row drawn freely, and a CDS row
Sources ==
    {<< SourceRow(<<"c", "h", "r", "7">>, "exon", 1, 3,
                  << <<"ID", "exon-1">>, <<"gene", "BRAF">> >>),
        SourceRow(c, t, p[1], p[2], info),
        SourceRow(<<"c", "h", "r", "X">>, "CDS", 2, 2,
                  << <<"ID", "cds-NP_001104262.1">>, <<"Name", "NP_001104262.1">>,
                     <<"gene", "MECP2">> >>) >> :
        c \in ChromosomeNames, t \in {"CDS", "exon"},
        p \in {<<1, 2>>, <<3, 3>>}, info \in InfoArgs}

\* before __init__ has loaded the table
LoadInit ==
    /\ df = <<>>
    /\ built = <<>>
    /\ request \in Sources
    /\ response = RefPending
    /\ calls = 0

\* self.df = self._load_mane_refseq_gff_data()
Load ==
    /\ response.kind = "pending"
    /\ LET loaded == _load_mane_refseq_gff_data(request)
       IN  /\ response' = loaded
           /\ df' = IF loaded.kind = "return" THEN loaded.value ELSE df
           /\ built' = df'
    /\ UNCHANGED <<request, calls>>

LoadNext == Load

SpecLoad == LoadInit /\ [][LoadNext]_vars

-----------------------------------------------------------------------------
(* Vocabulary of the properties *)

\* the chromosome names 1..22, X, Y
ValidChromosomes ==
    {<<"X">>, <<"Y">>} \cup {<<d>> : d \in Digits19}
        \cup {<<"1", d>> : d \in Digits09} \cup {<<"2", d>> : d \in Digits02}

Done == response.kind # "pending"

Returned == response.kind = "return"

ReturnedMapping == Returned /\ response.value # None

\* closed-interval intersection of table row i with the interval and the
\* chromosome the call ended with
Overlaps(i) ==
    /\ df[i].chromosome = response.chromosome[1]
    /\ df[i].cds_start <= response.end
    /\ df[i].cds_stop >= response.start

MatchingRows == {i \in 1..Len(df) : Overlaps(i)}

MatchingRowsOf(g) == {i \in MatchingRows : df[i].gene = g}

\* the k-th smallest member of a set of row numbers
NthOf(S, k) == CHOOSE i \in S : Cardinality({j \in S : j < i}) = k - 1

\* <<g, k>>: record k of gene g in the returned mapping
Records ==
    IF ReturnedMapping
    THEN UNION {{<<g, k>> : k \in 1..Len(response.value[1][g])} :
                    g \in DOMAIN response.value[1]}
    ELSE {}

Record(t) == response.value[1][t[1]][t[2]]

\* whether record t was produced from a table row, and that row: the rows of
\* a gene come out in table order
HasRow(t) == t[2] <= Cardinality(MatchingRowsOf(t[1]))

RowOf(t) == df[NthOf(MatchingRowsOf(t[1]), t[2])]

Max(a, b) == IF a >= b THEN a ELSE b

-----------------------------------------------------------------------------
(* C1: the records returned are, gene by gene and in table order, exactly   *)
(* the table rows on the target chromosome with cds_start <= end and       *)
(* cds_stop >= start: each such row once, under its own gene, and no other *)
(* row.                                                                    *)
C1_RowSelection ==
    Returned =>
        /\ response.value = None => MatchingRows = {}
        /\ response.value # None =>
            /\ DOMAIN response.value[1] = {df[i].gene : i \in MatchingRows}
            /\ \A g \in DOMAIN response.value[1] :
                    Len(response.value[1][g]) = Cardinality(MatchingRowsOf(g))
            /\ \A t \in Records :
                    /\ Record(t).cds_start = RowOf(t).cds_start
                    /\ Record(t).cds_stop = RowOf(t).cds_stop

\* two rows of one gene and a row of another gene are returned, while the
\* table holds a row the query leaves out
C1_Witness ==
    /\ ReturnedMapping
    /\ Cardinality(DOMAIN response.value[1]) = 2
    /\ \E g \in DOMAIN response.value[1] : Len(response.value[1][g]) = 2
    /\ Cardinality(MatchingRows) < Len(df)
    /\ \E i \in 1..Len(df) :
            df[i].chromosome = response.chromosome[1] /\ i \notin MatchingRows

(* C2: every record has overlap_start = max(cds_start, start) and          *)
(* overlap_stop = min(cds_stop, end) for the normalized interval, and      *)
(* carries the cds_start and cds_stop of its row.                          *)
C2_OverlapClipping ==
    \A t \in Records :
        /\ HasRow(t)
        /\ Record(t).cds_start = RowOf(t).cds_start
        /\ Record(t).cds_stop = RowOf(t).cds_stop
        /\ Record(t).overlap_start = Max(RowOf(t).cds_start, response.start)
        /\ Record(t).overlap_stop = Min(RowOf(t).cds_stop, response.end)

\* a RESIDUE query that starts before a row and ends inside it, as [50,150]
\* does with the row [100,200]; and a row that ends inside the query
C2_Witness ==
    /\ request.residue_mode = "RESIDUE"
    /\ \E t \in Records :
            /\ request.start < Record(t).cds_start
            /\ Record(t).overlap_start = Record(t).cds_start
            /\ request.end < Record(t).cds_stop
            /\ Record(t).overlap_stop = request.end
    /\ \E t \in Records : Record(t).overlap_stop = Record(t).cds_stop

(* C3, as stated: an INTER_RESIDUE query with start = end is normalized to *)
(* an interval whose start equals its end; with start # end only start is  *)
(* incremented.                                                            *)
C3_AsStated ==
    (response.filtered /\ request.residue_mode = "INTER_RESIDUE") =>
        IF request.start = request.end
        THEN response.start = response.end
        ELSE response.start = request.start + 1 /\ response.end = request.end

(* C3, amended: an INTER_RESIDUE query with start = end is normalized to   *)
(* the two-position interval [start, end + 1]; with start # end only start *)
(* is incremented; a RESIDUE query is left as it is.                       *)
C3_ZeroWidthNormalization ==
    response.filtered =>
        IF request.residue_mode = "INTER_RESIDUE"
        THEN IF request.start = request.end
             THEN response.start = request.start /\ response.end = request.end + 1
             ELSE response.start = request.start + 1 /\ response.end = request.end
        ELSE response.start = request.start /\ response.end = request.end

\* a zero-width query returns a row that begins at end + 1, and another
\* that ends at start
C3_Witness ==
    /\ request.residue_mode = "INTER_RESIDUE"
    /\ request.start = request.end
    /\ \E t \in Records : Record(t).cds_start = request.end + 1
    /\ \E t \in Records : Record(t).cds_stop = request.start

(* C4, as stated: a chromosome argument that is given (a non-empty name)   *)
(* and is not exactly one of 1..22, X, Y makes the call fail with the      *)
(* chromosome error before the table is filtered, and every chromosome the *)
(* table is filtered with is one of 1..22, X, Y.                           *)
C4_ChromosomeValidation ==
    /\ (Done /\ TruthyChars(request.chromosome)
              /\ request.chromosome[1] \notin ValidChromosomes) =>
            /\ response.kind = "raise"
            /\ response.msg = Some(<<"chromosome must be 1, ..., 22, X, or Y", "">>)
            /\ ~response.filtered
    /\ response.filtered => response.chromosome[1] \in ValidChromosomes

(* C5: with a chromosome and an identifier both given, no call of          *)
(* translate_identifier is made, the table is filtered with the chromosome *)
(* given, and the call ends as the same call without the identifier does.  *)
C5_ChromosomePrecedence ==
    (Done /\ TruthyChars(request.chromosome) /\ TruthyStr(request.identifier)) =>
        /\ response.translate_calls = 0
        /\ response.filtered => response.chromosome = request.chromosome
        /\ response = get_grch38_cds_overlap(df, request.start, request.end,
                                             request.chromosome, None,
                                             request.residue_mode)

\* the identifier resolves to X, the chromosome given is 7, and rows of
\* chromosome 7 are returned
C5_Witness ==
    /\ request.chromosome = Some(<<"7">>)
    /\ request.identifier = Some("NC_000023.11")
    /\ _get_chr_from_alt_ac(request.identifier[1]).value = <<"X">>
    /\ ReturnedMapping
    /\ \A t \in Records : RowOf(t).chromosome = <<"7">>
    /\ \E i \in 1..Len(df) : df[i].chromosome = <<"X">>

(* C6: a call that returns, returns None exactly when no row of the table  *)
(* overlaps the interval on the chromosome; a mapping returned has a key,  *)
(* and a record under every key.                                           *)
C6_NoOverlapSentinel ==
    Returned =>
        /\ response.value = None <=> MatchingRows = {}
        /\ response.value # None =>
            /\ DOMAIN response.value[1] # {}
            /\ \A g \in DOMAIN response.value[1] : response.value[1][g] # <<>>

\* None is returned for a chromosome the table has rows of
C6_Witness ==
    /\ Returned
    /\ response.value = None
    /\ response.chromosome[1] \in ValidChromosomes
    /\ \E i \in 1..Len(df) : df[i].chromosome = response.chromosome[1]

(* C7, as stated: every record carries the five fields info_name,          *)
(* cds_start, cds_stop, overlap_start and overlap_stop, with the info_name *)
(* of its row.                                                             *)
C7_AsStated ==
    \A t \in Records :
        /\ DOMAIN Record(t) =
                {"info_name", "cds_start", "cds_stop", "overlap_start", "overlap_stop"}
        /\ Record(t).info_name = RowOf(t).info_name

(* C7, amended: every record carries exactly the four fields cds_start,    *)
(* cds_stop, overlap_start and overlap_stop; info_name is not a field of   *)
(* the record.                                                             *)
C7_RecordShape ==
    \A t \in Records :
        DOMAIN Record(t) = {"cds_start", "cds_stop", "overlap_start", "overlap_stop"}

\* records of two rows with different info_name are returned
C7_Witness ==
    \E t, u \in Records :
        HasRow(t) /\ HasRow(u) /\ RowOf(t).info_name # RowOf(u).info_name

\* an alias of the exact form GRCh38:<c>, c one of 1..22, X, Y
ExactAlias(a) == \E c \in ValidChromosomes : a = AliasPrefix \o c

ExactAliasChromosome(a) == CHOOSE c \in ValidChromosomes : a = AliasPrefix \o c

ExactAliases(aliases) == {i \in 1..Len(aliases) : ExactAlias(aliases[i])}

\* the call has to resolve the chromosome from the identifier
IdentifierOnly ==
    Done /\ ~TruthyChars(request.chromosome) /\ TruthyStr(request.identifier)

(* C8: with only an identifier given, translate_identifier is asked once   *)
(* for the GRCh38 aliases; the call fails with the message of              *)
(* SequenceAccess when it reports an error, with the aliases message when  *)
(* the alias list is empty, and with the chromosome message, a different   *)
(* one, when no alias has the exact form GRCh38:<c>; otherwise the table   *)
(* is filtered with the chromosome of the first alias of that form, which  *)
(* is one of 1..22, X, Y.                                                  *)
C8_IdentifierResolution ==
    IdentifierOnly =>
        LET id == request.identifier[1]
            resp == translate_identifier(id, "GRCh38")
            exact == ExactAliases(resp[1])
        IN  /\ response.translate_calls = 1
            /\ IF resp[2] # None
               THEN /\ response.kind = "raise"
                    /\ response.msg = resp[2]
                    /\ response.msg[1][1] # "Unable to find GRCh38 chromosome for: "
               ELSE IF resp[1] = <<>>
               THEN /\ response.kind = "raise"
                    /\ response.msg = Some(<<"Unable to find GRCh38 aliases for: ", id>>)
               ELSE IF exact = {}
               THEN /\ response.kind = "raise"
                    /\ response.msg = Some(<<"Unable to find GRCh38 chromosome for: ", id>>)
               ELSE /\ Returned
                    /\ response.filtered
                    /\ response.chromosome =
                           Some(ExactAliasChromosome(resp[1][NthOf(exact, 1)]))
            /\ response.filtered => response.chromosome[1] \in ValidChromosomes

\* the identifier has two aliases of the exact form, for different
\* chromosomes, and the table was filtered with the first one's
C8_Witness ==
    /\ IdentifierOnly
    /\ LET aliases == translate_identifier(request.identifier[1], "GRCh38")[1]
       IN  /\ Cardinality(ExactAliases(aliases)) = 2
           /\ \E i, j \in ExactAliases(aliases) :
                  ExactAliasChromosome(aliases[i]) # ExactAliasChromosome(aliases[j])
           /\ response.chromosome = Some(ExactAliasChromosome(aliases[1]))
    /\ Returned

\* a chromosome name the validation rejects: none of 1..22, X, Y, not
\* beginning with X or Y, and without a final newline
Rejected(c) ==
    c \notin ValidChromosomes /\ c[1] \notin {"X", "Y"} /\ c[Len(c)] # "\n"

\* the three failures: an invalid chromosome, neither chromosome nor
\* identifier, an identifier that cannot be resolved
FailureCase ==
    /\ Done
    /\ \/ TruthyChars(request.chromosome) /\ Rejected(request.chromosome[1])
       \/ ~TruthyChars(request.chromosome) /\ ~TruthyStr(request.identifier)
       \/ /\ IdentifierOnly
          /\ ExactAliases(translate_identifier(request.identifier[1], "GRCh38")[1]) = {}

(* C9, as stated: the call returns and never raises; each of the three     *)
(* failures is an error value carried by the result, which differs from    *)
(* the no-overlap value None.                                              *)
C9_AsStated ==
    /\ Done => response.kind = "return"
    /\ FailureCase => response.msg # None

(* C9, amended: each of the three failures is raised as a                  *)
(* FeatureOverlapError with a message, before the table is filtered; a     *)
(* call that returns carries no error, so a failure never looks like the   *)
(* no-overlap value None.                                                  *)
C9_ErrorsRaised ==
    /\ FailureCase =>
            response.kind = "raise" /\ response.msg # None /\ ~response.filtered
    /\ Returned => response.msg = None /\ response.filtered
    /\ Done => response.kind \in {"return", "raise"}

\* an invalid chromosome is raised
C9_Witness ==
    /\ FailureCase
    /\ request.chromosome = Some(<<"2", "3">>)
    /\ response.kind = "raise"

(* C10: through any sequence of calls self.df stays, row for row, the      *)
(* table built at construction, and a call with the arguments of the call  *)
(* before it ends the way that call did.                                   *)
C10_TableImmutable ==
    /\ [](df = built)
    /\ [][(Done /\ request' = request) => response' = response]_vars

\* after a call that raised and calls in both modes that returned rows or
\* None, the table is as built
C10_Witness ==
    /\ calls = MaxCalls
    /\ request.residue_mode = "INTER_RESIDUE"
    /\ ReturnedMapping
    /\ Cardinality(MatchingRows) < Len(df)
    /\ df = built

(* C13: every record returned, for any start and end (start > end too) and *)
(* either mode, has cds_start <= overlap_start <= overlap_stop <= cds_stop *)
(* for the row it was produced from: the overlap reported is a non-empty   *)
(* interval inside the row.                                                *)
C13_OverlapWellFormed ==
    \A t \in Records :
        /\ HasRow(t)
        /\ RowOf(t).cds_start <= RowOf(t).cds_stop
        /\ RowOf(t).cds_start <= Record(t).overlap_start
        /\ Record(t).overlap_start <= Record(t).overlap_stop
        /\ Record(t).overlap_stop <= RowOf(t).cds_stop

\* the same, for the calls whose normalized interval has start <= end
C13_WellFormedWhenOrdered ==
    response.start <= response.end =>
        \A t \in Records :
            /\ HasRow(t)
            /\ RowOf(t).cds_start <= Record(t).overlap_start
            /\ Record(t).overlap_start <= Record(t).overlap_stop
            /\ Record(t).overlap_stop <= RowOf(t).cds_stop

\* a message: the error of a result of get_reference_sequence
ReversedMessage(start, end) ==
    Some(<<"start (", start, ") cannot be greater than end (", end, ")">>)

\* RESIDUE positions s..e of a sequence the repository holds
InRange ==
    /\ request.ac \in DOMAIN SeqRepoSequences
    /\ request.start # None /\ request.end # None
    /\ 1 <= request.start[1] /\ request.start[1] <= request.end[1]
    /\ request.end[1] <= Len(SeqRepoSequences[request.ac])

(* C11: for an accession the repository holds and 1 <= s <= e within the   *)
(* sequence, get_reference_sequence(id, s, e, RESIDUE) returns residues s  *)
(* to e, e - s + 1 of them, and no error, and so does                      *)
(* get_reference_sequence(id, s - 1, e, INTER_RESIDUE).                    *)
C11_ModeEquivalence ==
    (Done /\ InRange /\ request.residue_mode = "RESIDUE") =>
        LET s == request.start[1]
            e == request.end[1]
            sequence == SeqRepoSequences[request.ac]
        IN  /\ response.msg = None
            /\ Len(response.value) = e - s + 1
            /\ \A k \in 1..(e - s + 1) : response.value[k] = sequence[s + k - 1]
            /\ response = get_reference_sequence(request.ac, Some(s - 1), Some(e),
                                                 "INTER_RESIDUE")

\* residues 2..3 of a four-residue sequence
C11_Witness ==
    /\ Done /\ InRange /\ request.residue_mode = "RESIDUE"
    /\ request.start[1] > 1
    /\ request.end[1] > request.start[1]
    /\ request.end[1] < Len(SeqRepoSequences[request.ac])
    /\ Len(response.value) = 2

\* start and end of the request after the conversion of the mode
NormalizedReversed ==
    /\ request.start # None /\ request.end # None
    /\ (IF request.residue_mode = "RESIDUE"
        THEN request.start[1] - 1 ELSE request.start[1]) > request.end[1]

(* C12: whenever start is greater than end after the conversion of the     *)
(* mode, for an accession the repository holds or not and however large    *)
(* start is, the call returns the empty sequence and the error             *)
(* "start ({start}) cannot be greater than end ({end})".                   *)
C12_ReversedRejected ==
    (Done /\ NormalizedReversed) =>
        /\ response.kind = "return"
        /\ response.value = <<>>
        /\ response.msg = ReversedMessage(request.start[1], request.end[1])

\* start is past the end of a sequence the repository holds, and end is 1
C12_Witness ==
    /\ Done /\ NormalizedReversed
    /\ request.ac \in DOMAIN SeqRepoSequences
    /\ request.start[1] > Len(SeqRepoSequences[request.ac]) + 1
    /\ request.end[1] = 1
    /\ response.msg # None

\* c without one leading chr, when it begins with chr
WithoutChrPrefix(c) ==
    IF Len(c) >= 3 /\ SubSeq(c, 1, 3) = <<"c", "h", "r">>
    THEN SubSeq(c, 4, Len(c)) ELSE c

\* c up to its first "_"
UpToUnderscore(c) ==
    IF \E i \in 1..Len(c) : c[i] = "_"
    THEN SubSeq(c, 1, (CHOOSE i \in 1..Len(c) :
                          c[i] = "_" /\ \A j \in 1..(i - 1) : c[j] # "_") - 1)
    ELSE c

\* the numbers of the CDS rows of the source
CdsSourceRows == {i \in 1..Len(request) : request[i].type = "CDS"}

(* C14: the table loaded holds the CDS rows of the source and no other, in *)
(* the order of the source; each has type CDS, the cds_start and cds_stop  *)
(* of its source row, and the chromosome of its source row with one        *)
(* leading chr removed, when present, and then cut at the first "_".       *)
C14_LoadNormalization ==
    Returned =>
        /\ Len(df) = Cardinality(CdsSourceRows)
        /\ \A k \in 1..Len(df) :
              LET src == request[NthOf(CdsSourceRows, k)]
              IN  /\ df[k].type = "CDS"
                  /\ df[k].cds_start = src.cds_start
                  /\ df[k].cds_stop = src.cds_stop
                  /\ df[k].chromosome = UpToUnderscore(WithoutChrPrefix(src.chromosome))

\* the same, with the chromosome as strip("chr") leaves it: every leading
\* and trailing c, h and r removed, then cut at the first "_"
C14_LoadAsCoded ==
    Returned =>
        /\ Len(df) = Cardinality(CdsSourceRows)
        /\ \A k \in 1..Len(df) :
              LET src == request[NthOf(CdsSourceRows, k)]
                  c == src.chromosome
                  lead == CHOOSE i \in 0..Len(c) :
                            /\ \A j \in 1..i : c[j] \in StripChars
                            /\ i < Len(c) => c[i + 1] \notin StripChars
                  rest == SubSeq(c, lead + 1, Len(c))
                  trail == CHOOSE i \in 0..Len(rest) :
                            /\ \A j \in (i + 1)..Len(rest) : rest[j] \in StripChars
                            /\ i > 0 => rest[i] \notin StripChars
              IN  /\ df[k].type = "CDS"
                  /\ df[k].cds_start = src.cds_start
                  /\ df[k].cds_stop = src.cds_stop
                  /\ df[k].chromosome = UpToUnderscore(SubSeq(rest, 1, trail))

====
